---- MODULE Spec2Model ----
(***************************************************************************)
(* The task API of packages/backend/src/app.js: one in-memory SQLite table *)
(* `tasks` and the express handlers that list, create, update, toggle and  *)
(* delete its rows; and the React client of packages/frontend that calls   *)
(* it.  JavaScript strings are sequences of one-character strings,         *)
(* JavaScript values are tagged records, timestamps are seconds of a clock *)
(* that never runs backwards.                                              *)
(***************************************************************************)
EXTENDS Integers, Sequences, FiniteSets, Bags, TLC

VARIABLES tasks, seq, clock, request, response, nreq, app, net, today

server == <<tasks, seq, clock, request, response, nreq>>

client == <<app, net, today>>

vars == <<tasks, seq, clock, request, response, nreq, app, net, today>>

(***************************************************************************)
(* Bounds of the exploration.                                              *)
(***************************************************************************)
MaxRequests == 2
MaxClock == 1
MaxInFlight == 2

(***************************************************************************)
(* JavaScript values as they arrive in a JSON body.                        *)
(***************************************************************************)
Undefined == [t |-> "undefined", s |-> <<>>, n |-> 0]
Null == [t |-> "null", s |-> <<>>, n |-> 0]
Str(s) == [t |-> "string", s |-> s, n |-> 0]
Num(n) == [t |-> "number", s |-> <<>>, n |-> n]
Bool(b) == [t |-> "boolean", s |-> <<>>, n |-> IF b THEN 1 ELSE 0]

\* ToBoolean: undefined, null, "", 0 and false are falsy
Truthy(v) ==
  CASE v.t = "string" -> v.s # <<>>
    [] v.t = "number" -> v.n # 0
    [] v.t = "boolean" -> v.n = 1
    [] OTHER -> FALSE

(***************************************************************************)
(* Strings.                                                                *)
(***************************************************************************)
Rep(c, n) == [i \in 1..n |-> c]

IsWhitespace(c) == c \in {" ", "\t", "\n"}

\* the string without its leading whitespace
TrimStart(s) ==
  IF \A i \in 1..Len(s) : IsWhitespace(s[i]) THEN <<>>
  ELSE SubSeq(s, CHOOSE i \in 1..Len(s) :
                   /\ ~IsWhitespace(s[i])
                   /\ \A j \in 1..(i - 1) : IsWhitespace(s[j]),
              Len(s))

\* the string without its trailing whitespace
TrimEnd(s) ==
  IF \A i \in 1..Len(s) : IsWhitespace(s[i]) THEN <<>>
  ELSE SubSeq(s, 1, CHOOSE i \in 1..Len(s) :
                      /\ ~IsWhitespace(s[i])
                      /\ \A j \in (i + 1)..Len(s) : IsWhitespace(s[j]))

\* String.prototype.trim
Trim(s) == TrimEnd(TrimStart(s))

Digits == <<"0", "1", "2", "3", "4", "5", "6", "7", "8", "9">>

IsDigit(c) == \E i \in 1..10 : Digits[i] = c

DigitVal(c) == (CHOOSE i \in 1..10 : Digits[i] = c) - 1

RECURSIVE DigitPrefixLen(_)
DigitPrefixLen(s) ==
  IF s # <<>> /\ IsDigit(Head(s)) THEN 1 + DigitPrefixLen(Tail(s)) ELSE 0

RECURSIVE DigitsVal(_)
DigitsVal(s) ==
  IF s = <<>> THEN 0
  ELSE 10 * DigitsVal(SubSeq(s, 1, Len(s) - 1)) + DigitVal(s[Len(s)])

RECURSIVE Pow10(_)
Pow10(k) == IF k <= 0 THEN 1 ELSE 10 * Pow10(k - 1)

Drop(s, k) == SubSeq(s, k + 1, Len(s))

HasSign(s) == s # <<>> /\ Head(s) \in {"-", "+"}

SignOf(s) == IF s # <<>> /\ Head(s) = "-" THEN -1 ELSE 1

Unsigned(s) == IF HasSign(s) THEN Tail(s) ELSE s

\* parseInt(string), radix 10: leading whitespace, a sign, then the longest
\* run of digits; NaN when that run is empty
ParseDigits(sign, r, k) ==
  IF k = 0 THEN [nan |-> TRUE, n |-> 0]
  ELSE [nan |-> FALSE, n |-> sign * DigitsVal(SubSeq(r, 1, k))]

ParseUnsigned(sign, r) == ParseDigits(sign, r, DigitPrefixLen(r))

ParseInt(s) == ParseUnsigned(SignOf(TrimStart(s)), Unsigned(TrimStart(s)))

(***************************************************************************)
(* SQLite: the comparison `id = ?` of the INTEGER column with a bound TEXT *)
(* applies numeric affinity to the text.  A well-formed integer or real    *)
(* literal becomes a number, any other text stays text and equals no       *)
(* integer.                                                                *)
(***************************************************************************)
NotWhole == [whole |-> FALSE, n |-> 0]

\* sign * mant * 10^exp when that is an integer
Scaled(sign, mant, exp) ==
  IF exp >= 0 THEN [whole |-> TRUE, n |-> sign * mant * Pow10(exp)]
  ELSE IF mant % Pow10(-exp) = 0
    THEN [whole |-> TRUE, n |-> sign * (mant \div Pow10(-exp))]
  ELSE NotWhole

\* the digits d of an exponent of sign esign
ExponentDigits(sign, mant, fracLen, esign, d) ==
  IF d = <<>> \/ DigitPrefixLen(d) # Len(d) THEN NotWhole
  ELSE Scaled(sign, mant, esign * DigitsVal(d) - fracLen)

\* the text r after the mantissa: nothing, or e [sign] digits
ParseExponent(sign, mant, fracLen, r) ==
  IF r = <<>> THEN Scaled(sign, mant, -fracLen)
  ELSE IF Head(r) \notin {"e", "E"} THEN NotWhole
  ELSE ExponentDigits(sign, mant, fracLen, SignOf(Tail(r)), Unsigned(Tail(r)))

\* the k fraction digits at the head of r
FractionDigits(sign, int, r, k) ==
  IF Len(int) + k = 0 THEN NotWhole
  ELSE ParseExponent(sign, DigitsVal(int \o SubSeq(r, 1, k)), k, Drop(r, k))

\* the text r after the integer digits int
ParseFraction(sign, int, r) ==
  IF r # <<>> /\ Head(r) = "."
    THEN FractionDigits(sign, int, Tail(r), DigitPrefixLen(Tail(r)))
  ELSE IF int = <<>> THEN NotWhole
  ELSE ParseExponent(sign, DigitsVal(int), 0, r)

ParseMantissa(sign, u) ==
  ParseFraction(sign, SubSeq(u, 1, DigitPrefixLen(u)), Drop(u, DigitPrefixLen(u)))

\* whether the text is a numeric literal with an integer value, and the value
NumericLiteral(s) == ParseMantissa(SignOf(Trim(s)), Unsigned(Trim(s)))

\* does the row with integer id k satisfy `id = ?` for the bound text s
SqliteIdEquals(k, s) ==
  LET v == NumericLiteral(s) IN v.whole /\ v.n = k

(***************************************************************************)
(* Program constants.                                                      *)
(***************************************************************************)
High == <<"h", "i", "g", "h">>
Medium == <<"m", "e", "d", "i", "u", "m">>
Low == <<"l", "o", "w">>

validPriorities == {High, Medium, Low}

MaxTitleLength == 200

TitleRequired == "Task title is required"
TitleTooLong == "Task title must be 200 characters or less"
InvalidPriority == "Invalid priority level"
TaskNotFound == "Task not found"
ValidIdRequired == "Valid task ID is required"
TaskDeleted == "Task deleted successfully"

\* Array.prototype.includes over validPriorities: only a string can match
Includes(v) == v.t = "string" /\ v.s \in validPriorities

(***************************************************************************)
(* The table.  `tasks` maps each stored id to its row, `seq` is the        *)
(* AUTOINCREMENT counter of sqlite_sequence.                               *)
(***************************************************************************)
\* the completed column defaults to 1
InsertedRow_DefaultCompleted(id, title, description, priority, due_date, now) ==
  [id |-> id, title |-> title, description |-> description,
   completed |-> 1, priority |-> priority, due_date |-> due_date,
   created_at |-> now, updated_at |-> now]

\* INSERT INTO tasks (title, description, priority, due_date): the other
\* columns take their defaults
InsertedRow(id, title, description, priority, due_date, now) ==
  [id |-> id, title |-> title, description |-> description,
   completed |-> 0, priority |-> priority, due_date |-> due_date,
   created_at |-> now, updated_at |-> now]

initialTasks ==
  << [title |-> <<"C", "o", "m", "p", "l", "e", "t", "e", " ", "p", "r", "o", "j", "e", "c", "t", " ", "d", "o", "c", "u", "m", "e", "n", "t", "a", "t", "i", "o", "n">>,
      description |-> Str(<<"W", "r", "i", "t", "e", " ", "c", "o", "m", "p", "r", "e", "h", "e", "n", "s", "i", "v", "e", " ", "d", "o", "c", "s", " ", "f", "o", "r", " ", "t", "h", "e", " ", "T", "O", "D", "O", " ", "a", "p", "p">>),
      priority |-> High,
      due_date |-> Str(<<"2", "0", "2", "6", "-", "0", "2", "-", "1", "5">>)],
     [title |-> <<"R", "e", "v", "i", "e", "w", " ", "p", "u", "l", "l", " ", "r", "e", "q", "u", "e", "s", "t", "s">>,
      description |-> Str(<<"R", "e", "v", "i", "e", "w", " ", "a", "n", "d", " ", "m", "e", "r", "g", "e", " ", "p", "e", "n", "d", "i", "n", "g", " ", "P", "R", "s">>),
      priority |-> Medium,
      due_date |-> Str(<<"2", "0", "2", "6", "-", "0", "2", "-", "1", "4">>)],
     [title |-> <<"U", "p", "d", "a", "t", "e", " ", "d", "e", "p", "e", "n", "d", "e", "n", "c", "i", "e", "s">>,
      description |-> Str(<<"C", "h", "e", "c", "k", " ", "a", "n", "d", " ", "u", "p", "d", "a", "t", "e", " ", "n", "p", "m", " ", "p", "a", "c", "k", "a", "g", "e", "s">>),
      priority |-> Low,
      due_date |-> Null] >>

\* SELECT * FROM tasks WHERE id = ? with the path string bound as text
FindById(id) ==
  LET v == NumericLiteral(id)
  IN  {k \in DOMAIN tasks : v.whole /\ v.n = k}

(***************************************************************************)
(* Requests.                                                               *)
(***************************************************************************)
Body(title, description, priority, due_date, completed) ==
  [title |-> title, description |-> description, priority |-> priority,
   due_date |-> due_date, completed |-> completed]

EmptyBody == Body(Undefined, Undefined, Undefined, Undefined, Undefined)

NoId == <<>>

Req(method, id, body) == [method |-> method, id |-> id, body |-> body]

Res(status, body) == [status |-> status, body |-> body]

Err(status, message) == Res(status, [error |-> message])

NoError == Res(0, [error |-> ""])

(***************************************************************************)
(* POST /api/tasks                                                         *)
(***************************************************************************)
\* the title rules without the length rule
TitleError_NoLengthRule(title) ==
  IF ~Truthy(title) \/ title.t # "string" \/ Trim(title.s) = <<>>
    THEN TitleRequired
  ELSE ""

\* the length rule applied to the trimmed title
TitleError_TrimmedLength(title) ==
  IF ~Truthy(title) \/ title.t # "string" \/ Trim(title.s) = <<>>
    THEN TitleRequired
  ELSE IF Len(Trim(title.s)) > MaxTitleLength
    THEN TitleTooLong
  ELSE ""

\* the length rule off by one
TitleError_OffByOne(title) ==
  IF ~Truthy(title) \/ title.t # "string" \/ Trim(title.s) = <<>>
    THEN TitleRequired
  ELSE IF Len(title.s) >= MaxTitleLength
    THEN TitleTooLong
  ELSE ""

\* the two title rules; "" when the title passes
TitleError(title) ==
  IF ~Truthy(title) \/ title.t # "string" \/ Trim(title.s) = <<>>
    THEN TitleRequired
  ELSE IF Len(title.s) > MaxTitleLength
    THEN TitleTooLong
  ELSE ""

\* any string priority is taken as it comes
taskPriority_Unchecked(priority) ==
  IF priority.t = "string" THEN priority.s ELSE Medium

taskPriority(priority) ==
  IF Truthy(priority) /\ Includes(priority) THEN priority.s ELSE Medium

\* value || null
OrNull(v) == IF Truthy(v) THEN v ELSE Null

PostError(body) ==
  IF TitleError(body.title) # "" THEN Err(400, TitleError(body.title))
  ELSE NoError

\* the row takes the completed flag of the body
newTask_TakesCompleted(body, id, now) ==
  [InsertedRow(id, Trim(body.title.s), OrNull(body.description),
               taskPriority(body.priority), OrNull(body.due_date), now)
     EXCEPT !.completed = IF Truthy(body.completed) THEN 1 ELSE 0]

\* the id is one more than the largest stored rowid, as without AUTOINCREMENT
newTask_MaxRowid(body, id, now) ==
  InsertedRow(IF DOMAIN tasks = {} THEN 1
              ELSE 1 + CHOOSE k \in DOMAIN tasks : \A j \in DOMAIN tasks : j <= k,
              Trim(body.title.s), OrNull(body.description),
              taskPriority(body.priority), OrNull(body.due_date), now)

newTask(body, id, now) ==
  InsertedRow(id, Trim(body.title.s), OrNull(body.description),
              taskPriority(body.priority), OrNull(body.due_date), now)

CreateTask(body) ==
  /\ nreq < MaxRequests
  /\ nreq' = nreq + 1
  /\ request' = Req("POST", NoId, body)
  /\ LET error == PostError(body)
         row == newTask(body, seq + 1, clock)
     IN  IF error # NoError
           THEN /\ response' = error
                /\ UNCHANGED <<tasks, seq>>
           ELSE /\ tasks' = [k \in DOMAIN tasks \cup {row.id} |->
                               IF k = row.id THEN row ELSE tasks[k]]
                /\ seq' = row.id
                /\ response' = Res(201, row)
  /\ UNCHANGED clock

(***************************************************************************)
(* PUT /api/tasks/:id                                                      *)
(***************************************************************************)
\* !id || isNaN(parseInt(id))
InvalidId(id) == id = <<>> \/ ParseInt(id).nan

\* the payload is validated before the row is looked up
PutError_ValidatesFirst(id, body) ==
  IF InvalidId(id) THEN Err(400, ValidIdRequired)
  ELSE IF body.title # Undefined /\ TitleError(body.title) # ""
    THEN Err(400, TitleError(body.title))
  ELSE IF body.priority # Undefined /\ ~Includes(body.priority)
    THEN Err(400, InvalidPriority)
  ELSE IF FindById(id) = {} THEN Err(404, TaskNotFound)
  ELSE NoError

\* the priority of the payload is not validated
PutError_NoPriorityRule(id, body) ==
  IF InvalidId(id) THEN Err(400, ValidIdRequired)
  ELSE IF FindById(id) = {} THEN Err(404, TaskNotFound)
  ELSE IF body.title # Undefined /\ TitleError(body.title) # ""
    THEN Err(400, TitleError(body.title))
  ELSE NoError

PutError(id, body) ==
  IF InvalidId(id) THEN Err(400, ValidIdRequired)
  ELSE IF FindById(id) = {} THEN Err(404, TaskNotFound)
  ELSE IF body.title # Undefined /\ TitleError(body.title) # ""
    THEN Err(400, TitleError(body.title))
  ELSE IF body.priority # Undefined /\ ~Includes(body.priority)
    THEN Err(400, InvalidPriority)
  ELSE NoError

\* an omitted description is written as NULL
UpdatedRow_ClearsOmitted(row, body, now) ==
  [id |-> row.id,
   title |-> IF body.title # Undefined THEN Trim(body.title.s) ELSE row.title,
   description |-> IF body.description # Undefined THEN body.description
                   ELSE Null,
   completed |-> IF body.completed # Undefined
                   THEN (IF Truthy(body.completed) THEN 1 ELSE 0)
                   ELSE row.completed,
   priority |-> IF body.priority # Undefined THEN body.priority.s
                ELSE row.priority,
   due_date |-> IF body.due_date # Undefined THEN body.due_date
                ELSE row.due_date,
   created_at |-> row.created_at,
   updated_at |-> now]

\* a number is bound as it comes instead of completed ? 1 : 0
UpdatedRow_CompletedAsSent(row, body, now) ==
  [id |-> row.id,
   title |-> IF body.title # Undefined THEN Trim(body.title.s) ELSE row.title,
   description |-> IF body.description # Undefined THEN body.description
                   ELSE row.description,
   completed |-> IF body.completed # Undefined
                   THEN (IF body.completed.t = "number" THEN body.completed.n
                         ELSE IF Truthy(body.completed) THEN 1 ELSE 0)
                   ELSE row.completed,
   priority |-> IF body.priority # Undefined THEN body.priority.s
                ELSE row.priority,
   due_date |-> IF body.due_date # Undefined THEN body.due_date
                ELSE row.due_date,
   created_at |-> row.created_at,
   updated_at |-> now]

\* the statement also sets created_at = CURRENT_TIMESTAMP
UpdatedRow_ResetsCreatedAt(row, body, now) ==
  [id |-> row.id,
   title |-> IF body.title # Undefined THEN Trim(body.title.s) ELSE row.title,
   description |-> IF body.description # Undefined THEN body.description
                   ELSE row.description,
   completed |-> IF body.completed # Undefined
                   THEN (IF Truthy(body.completed) THEN 1 ELSE 0)
                   ELSE row.completed,
   priority |-> IF body.priority # Undefined THEN body.priority.s
                ELSE row.priority,
   due_date |-> IF body.due_date # Undefined THEN body.due_date
                ELSE row.due_date,
   created_at |-> now,
   updated_at |-> now]

\* the dynamically built UPDATE statement applied to one row
UpdatedRow(row, body, now) ==
  [id |-> row.id,
   title |-> IF body.title # Undefined THEN Trim(body.title.s) ELSE row.title,
   description |-> IF body.description # Undefined THEN body.description
                   ELSE row.description,
   completed |-> IF body.completed # Undefined
                   THEN (IF Truthy(body.completed) THEN 1 ELSE 0)
                   ELSE row.completed,
   priority |-> IF body.priority # Undefined THEN body.priority.s
                ELSE row.priority,
   due_date |-> IF body.due_date # Undefined THEN body.due_date
                ELSE row.due_date,
   created_at |-> row.created_at,
   updated_at |-> now]

\* the row SELECT ... WHERE id = ? returns from table t
Get(t, id) ==
  LET v == NumericLiteral(id)
  IN  t[CHOOSE k \in DOMAIN t : v.whole /\ v.n = k]

UpdateTask(id, body) ==
  /\ nreq < MaxRequests
  /\ nreq' = nreq + 1
  /\ request' = Req("PUT", id, body)
  /\ LET error == PutError(id, body)
         found == FindById(id)
     IN  IF error # NoError
           THEN /\ response' = error
                /\ UNCHANGED tasks
           ELSE /\ tasks' = [k \in DOMAIN tasks |->
                               IF k \in found
                                 THEN UpdatedRow(tasks[k], body, clock)
                                 ELSE tasks[k]]
                /\ response' = Res(200, Get(tasks', id))
  /\ UNCHANGED <<seq, clock>>

(***************************************************************************)
(* PATCH /api/tasks/:id/complete                                           *)
(***************************************************************************)
\* the handler looks the row up without checking the id first
PatchError_NoIdCheck(id) ==
  IF FindById(id) = {} THEN Err(404, TaskNotFound)
  ELSE NoError

PatchError(id) ==
  IF InvalidId(id) THEN Err(400, ValidIdRequired)
  ELSE IF FindById(id) = {} THEN Err(404, TaskNotFound)
  ELSE NoError

\* the request marks the task completed instead of flipping it
newCompletedStatus_AlwaysCompleted(existingTask) == 1

\* the handler reads the status the row was inserted with
newCompletedStatus_AsInserted(existingTask) ==
  IF InsertedRow(existingTask.id, existingTask.title,
                 existingTask.description, existingTask.priority,
                 existingTask.due_date, existingTask.created_at).completed = 1
    THEN 0
  ELSE 1

newCompletedStatus(existingTask) ==
  IF existingTask.completed = 1 THEN 0 ELSE 1

ToggleTask(id) ==
  /\ nreq < MaxRequests
  /\ nreq' = nreq + 1
  /\ request' = Req("PATCH", id, EmptyBody)
  /\ LET error == PatchError(id)
         found == FindById(id)
         existingTask == Get(tasks, id)
     IN  IF error # NoError
           THEN /\ response' = error
                /\ UNCHANGED tasks
           ELSE /\ tasks' = [k \in DOMAIN tasks |->
                               IF k \in found
                                 THEN [tasks[k] EXCEPT
                                         !.completed = newCompletedStatus(existingTask),
                                         !.updated_at = clock]
                                 ELSE tasks[k]]
                /\ response' = Res(200, Get(tasks', id))
  /\ UNCHANGED <<seq, clock>>

(***************************************************************************)
(* DELETE /api/tasks/:id                                                   *)
(***************************************************************************)
\* the DELETE statement matches no row
Remaining_KeepsAll(id) == DOMAIN tasks

DeleteError(id) ==
  IF InvalidId(id) THEN Err(400, ValidIdRequired)
  ELSE IF FindById(id) = {} THEN Err(404, TaskNotFound)
  ELSE NoError

\* the ids DELETE FROM tasks WHERE id = ? leaves in the table
Remaining(id) == DOMAIN tasks \ FindById(id)

\* the handler reads a count that is never positive
changes_NeverPositive(kept) == 0

\* result.changes: the number of rows the DELETE removed
changes(kept) == Cardinality(DOMAIN tasks) - Cardinality(kept)

DeleteTask(id) ==
  /\ nreq < MaxRequests
  /\ nreq' = nreq + 1
  /\ request' = Req("DELETE", id, EmptyBody)
  /\ LET error == DeleteError(id)
         kept == Remaining(id)
     IN  IF error # NoError
           THEN /\ response' = error
                /\ UNCHANGED tasks
           ELSE /\ tasks' = [k \in kept |-> tasks[k]]
                /\ response' =
                     IF changes(kept) > 0
                       THEN Res(200, [message |-> TaskDeleted, id |-> ParseInt(id).n])
                       ELSE Err(404, TaskNotFound)
  /\ UNCHANGED <<seq, clock>>

(***************************************************************************)
(* CURRENT_TIMESTAMP advances between requests.                            *)
(***************************************************************************)
Tick ==
  /\ nreq < MaxRequests
  /\ clock < MaxClock
  /\ clock' = clock + 1
  /\ UNCHANGED <<tasks, seq, request, response, nreq>>

(***************************************************************************)
(* GET /api/tasks: the rows the WHERE clause selects.                      *)
(***************************************************************************)
Active == <<"a", "c", "t", "i", "v", "e">>
Completed == <<"c", "o", "m", "p", "l", "e", "t", "e", "d">>

\* the two filters are joined with OR
Selected_EitherFilter(status, priority) ==
  {k \in DOMAIN tasks :
     \/ status = Str(Active) /\ tasks[k].completed = 0
     \/ status = Str(Completed) /\ tasks[k].completed = 1
     \/ (Truthy(priority) /\ Includes(priority)) /\
          tasks[k].priority = priority.s
     \/ /\ status \notin {Str(Active), Str(Completed)}
        /\ ~(Truthy(priority) /\ Includes(priority))}

Selected(status, priority) ==
  {k \in DOMAIN tasks :
     /\ status = Str(Active) => tasks[k].completed = 0
     /\ status = Str(Completed) => tasks[k].completed = 1
     /\ (Truthy(priority) /\ Includes(priority)) =>
          tasks[k].priority = priority.s}

StatusParams == {Undefined, Str(Active), Str(Completed)}

PriorityParams == {Undefined, Str(High), Str(Medium), Str(Low)}

(***************************************************************************)
(* GET /api/tasks: the ORDER BY clause.  TEXT columns compare bytewise      *)
(* (BINARY collation); rows with equal keys come out in rowid order.       *)
(***************************************************************************)
\* the characters of the stored strings, in code order
Alphabet ==
  << "\t", "\n", " ", "-",
     "0", "1", "2", "3", "4", "5", "6", "7", "8", "9",
     "A", "B", "C", "D", "E", "F", "G", "H", "I", "J", "K", "L", "M",
     "N", "O", "P", "Q", "R", "S", "T", "U", "V", "W", "X", "Y", "Z",
     "a", "b", "c", "d", "e", "f", "g", "h", "i", "j", "k", "l", "m",
     "n", "o", "p", "q", "r", "s", "t", "u", "v", "w", "x", "y", "z" >>

CharCode(c) == CHOOSE i \in 1..Len(Alphabet) : Alphabet[i] = c

\* s < t under BINARY collation
StrLess(s, t) ==
  \E i \in 1..(Len(s) + 1) :
    /\ i <= Len(t)
    /\ \A j \in 1..(i - 1) : s[j] = t[j]
    /\ i <= Len(s) => CharCode(s[i]) < CharCode(t[i])

SortDueDate == <<"d", "u", "e", "_", "d", "a", "t", "e">>
SortPriority == <<"p", "r", "i", "o", "r", "i", "t", "y">>
SortTitle == <<"t", "i", "t", "l", "e">>

\* the levels ranked in alphabetical order
PriorityRank_Alphabetical(priority) ==
  CASE priority = High -> 1
    [] priority = Low -> 2
    [] priority = Medium -> 3
    [] OTHER -> 0

\* CASE priority WHEN 'high' THEN 1 WHEN 'medium' THEN 2 WHEN 'low' THEN 3 END;
\* the NULL of any other priority sorts first
PriorityRank(priority) ==
  CASE priority = High -> 1
    [] priority = Medium -> 2
    [] priority = Low -> 3
    [] OTHER -> 0

\* due_date IS NULL, due_date ASC
DueDateLess(a, b) ==
  \/ a.due_date # Null /\ b.due_date = Null
  \/ /\ a.due_date # Null
     /\ b.due_date # Null
     /\ StrLess(a.due_date.s, b.due_date.s)

\* an unrecognised sort key orders by title
KeyLess_UnknownByTitle(sort, a, b) ==
  IF sort = Str(SortDueDate) THEN DueDateLess(a, b)
  ELSE IF sort = Str(SortPriority)
    THEN PriorityRank(a.priority) < PriorityRank(b.priority)
  ELSE IF sort = Undefined THEN a.created_at > b.created_at
  ELSE StrLess(a.title, b.title)

\* row a sorts strictly before row b under the ORDER BY clause of the key
KeyLess(sort, a, b) ==
  IF sort = Str(SortDueDate) THEN DueDateLess(a, b)
  ELSE IF sort = Str(SortPriority)
    THEN PriorityRank(a.priority) < PriorityRank(b.priority)
  ELSE IF sort = Str(SortTitle) THEN StrLess(a.title, b.title)
  ELSE a.created_at > b.created_at

\* rows with equal keys come out in an order that differs from call to call
Precedes_UnstableTies(sort, a, b) ==
  \/ KeyLess(sort, a, b)
  \/ /\ ~KeyLess(sort, b, a)
     /\ IF nreq % 2 = 0 THEN a.id < b.id ELSE a.id > b.id

\* row a comes out before row b
Precedes(sort, a, b) ==
  \/ KeyLess(sort, a, b)
  \/ ~KeyLess(sort, b, a) /\ a.id < b.id

Query(status, priority, sort) ==
  [status |-> status, priority |-> priority, sort |-> sort]

\* db.prepare(query).all(...params): the selected rows in order
Listed(query) ==
  LET S == Selected(query.status, query.priority)
  IN  [i \in 1..Cardinality(S) |->
         tasks[CHOOSE k \in S :
                 Cardinality({j \in S : Precedes(query.sort, tasks[j], tasks[k])})
                   = i - 1]]

ListTasks(query) ==
  /\ nreq < MaxRequests
  /\ nreq' = nreq + 1
  /\ request' = [method |-> "GET", id |-> NoId, body |-> EmptyBody,
                 query |-> query]
  /\ response' = Res(200, [list |-> Listed(query)])
  /\ UNCHANGED <<tasks, seq, clock>>

(***************************************************************************)
(* The client's path for a task: the decimal digits of its id.             *)
(***************************************************************************)
RECURSIVE IdPath(_)
IdPath(n) ==
  IF n < 10 THEN <<Digits[n + 1]>>
  ELSE IdPath(n \div 10) \o <<Digits[(n % 10) + 1]>>

(***************************************************************************)
(* Inputs.                                                                 *)
(***************************************************************************)
Short == <<"B", "u", "y">>
Padded == <<" ", "B", "u", "y", "\t">>
Invalid == <<"i", "n", "v", "a", "l", "i", "d">>
Note == <<"n", "o", "t", "e">>
Day == <<"2", "0", "2", "6", "-", "0", "3", "-", "0", "1">>

Titles ==
  { Undefined, Num(5), Str(<<>>),
    Str(Rep(" ", MaxTitleLength)), Str(Rep(" ", MaxTitleLength + 1)),
    Str(Short), Str(Padded),
    Str(Rep("a", MaxTitleLength)), Str(Rep("a", MaxTitleLength + 1)),
    Str(<<" ">> \o Rep("a", MaxTitleLength - 1)),
    Str(<<" ">> \o Rep("a", MaxTitleLength)) }

CreateBodies ==
  {Body(t, Undefined, Undefined, Undefined, Undefined) : t \in Titles}
  \cup {Body(Str(Short), Undefined, p, Undefined, Undefined) :
          p \in {Str(Low), Str(Invalid)}}
  \cup { Body(Str(Short), Str(Note), Str(High), Str(Day), Bool(TRUE)),
         Body(Str(Padded), Str(<<>>), Str(Invalid), Str(<<>>), Num(1)) }

UpdateBodies ==
  {Body(t, Undefined, Undefined, Undefined, Undefined) :
     t \in {Undefined, Str(Rep(" ", 2)), Str(Padded),
            Str(<<" ">> \o Rep("a", MaxTitleLength))}}
  \cup { Body(Undefined, Undefined, Str(Invalid), Undefined, Undefined),
         Body(Undefined, Null, Undefined, Null, Undefined),
         Body(Undefined, Undefined, Undefined, Undefined, Str(Short)),
         Body(Undefined, Undefined, Undefined, Undefined, Null),
         Body(Undefined, Undefined, Undefined, Undefined, Num(2)),
         Body(Str(Short), Str(Note), Str(Invalid), Str(Day), Bool(TRUE)),
         Body(Str(Short), Str(Note), Str(Low), Str(Day), Bool(TRUE)),
         Body(Str(Rep(" ", 2)), Undefined, Str(Invalid), Undefined, Undefined) }

PathIds ==
  { <<"1">>, <<"4">>, <<"9", "9">>, <<"a", "b", "c">>,
    <<"1", "0", "e", "-", "1">> }

\* a path that starts with the digits of a stored id
DigitsThenLetters == <<"1", "a", "b", "c">>

\* the path of the task created last
LastSeeded == IdPath(Len(initialTasks))

DeletePathIds == PathIds \cup {DigitsThenLetters, LastSeeded}

(***************************************************************************)
(* The client.  `app` is the state of the App component and of its         *)
(* TaskDialog, `net` the bag of fetch calls in flight (a request until the  *)
(* server has handled it, a response until the client has taken it),       *)
(* `today` the day dayjs() reads.                                          *)
(***************************************************************************)
All == <<"a", "l", "l">>
CreatedAt == <<"c", "r", "e", "a", "t", "e", "d", "_", "a", "t">>

FILTER_OPTIONS == {All, Active, Completed}

SORT_OPTIONS == <<CreatedAt, SortDueDate, SortPriority, SortTitle>>

\* what a validation returns: null or a message
NoMessage == [null |-> TRUE, message |-> ""]
Message(m) == [null |-> FALSE, message |-> m]

\* the length rule applied to the trimmed title
validateTaskTitle_TrimmedLength(title) ==
  IF title = <<>> \/ Trim(title) = <<>>
    THEN Message("Task title is required")
  ELSE IF Len(Trim(title)) > 200
    THEN Message("Task title must be 200 characters or less")
  ELSE NoMessage

validateTaskTitle(title) ==
  IF title = <<>> \/ Trim(title) = <<>>
    THEN Message("Task title is required")
  ELSE IF Len(title) > 200
    THEN Message("Task title must be 200 characters or less")
  ELSE NoMessage

\* dayjs(date): the year, month and day of a YYYY-MM-DD string
Dayjs(date) ==
  [y |-> DigitsVal(SubSeq(date, 1, 4)), m |-> DigitsVal(SubSeq(date, 6, 7)),
   d |-> DigitsVal(SubSeq(date, 9, 10))]

\* a.isBefore(b, 'day')
IsBeforeDay(a, b) ==
  \/ a.y < b.y
  \/ a.y = b.y /\ a.m < b.m
  \/ a.y = b.y /\ a.m = b.m /\ a.d < b.d

\* a task due today counts as overdue
isOverdue_TodayIncluded(task, now) ==
  IF ~Truthy(task.due_date) \/ task.completed # 0 THEN FALSE
  ELSE ~IsBeforeDay(Dayjs(now), Dayjs(task.due_date.s))

isOverdue(task, now) ==
  IF ~Truthy(task.due_date) \/ task.completed # 0 THEN FALSE
  ELSE IsBeforeDay(Dayjs(task.due_date.s), Dayjs(now))

TwoDigits(n) == IF n < 10 THEN <<"0">> \o IdPath(n) ELSE IdPath(n)

\* dayjs(date).format('YYYY-MM-DD')
formatDateForInput(date) ==
  IF date = <<>> THEN <<>>
  ELSE LET day == Dayjs(date)
       IN  IdPath(day.y) \o <<"-">> \o TwoDigits(day.m) \o <<"-">>
             \o TwoDigits(day.d)

\* TaskCounter
activeCount(list) == Cardinality({i \in 1..Len(list) : list[i].completed = 0})

completedCount(list) ==
  Cardinality({i \in 1..Len(list) : list[i].completed = 1})

\* the save button of the dialog is given no `disabled` property
saveButtonDisabled == FALSE

\* useState of TaskDialog and the effect that runs when it opens for a task
BlankForm ==
  [title |-> <<>>, description |-> <<>>, priority |-> Medium,
   due_date |-> <<>>]

FormOf(task) ==
  [title |-> task.title,
   description |-> IF Truthy(task.description) THEN task.description.s
                   ELSE <<>>,
   priority |-> IF task.priority # <<>> THEN task.priority ELSE Medium,
   due_date |-> IF Truthy(task.due_date)
                  THEN formatDateForInput(task.due_date.s) ELSE <<>>]

NoErrors == [title |-> NoMessage]

NoSnackbar == [open |-> FALSE, message |-> "", detail |-> "", severity |-> "success"]

showSnackbar(message, detail, severity) ==
  [open |-> TRUE, message |-> message, detail |-> detail,
   severity |-> severity]

\* useState of App; editingTask is <<>> for null
Mounted ==
  [tasks |-> <<>>, loading |-> TRUE, filter |-> All, sort |-> SORT_OPTIONS[1],
   dialogOpen |-> FALSE, editingTask |-> <<>>, snackbar |-> NoSnackbar,
   formData |-> BlankForm, errors |-> NoErrors]

\* the filter and sort a loadTasks callback was created with
Closure(filter, sort) == [filter |-> filter, sort |-> sort]

NoQuery == Query(Undefined, Undefined, Undefined)

\* getTasks({ status, sort }): the query string it builds
getTasks(status, sort) ==
  Query(IF status # <<>> /\ status # All THEN Str(status) ELSE Undefined,
        Undefined,
        IF sort # <<>> THEN Str(sort) ELSE Undefined)

Fetch(method, id, body, query, loadTasks) ==
  [kind |-> "request", method |-> method, id |-> id,
   body |-> body, query |-> query, loadTasks |-> loadTasks,
   response |-> NoError]

\* loadTasks up to its await
LoadRequest(loadTasks) ==
  Fetch("GET", NoId, EmptyBody,
        getTasks(loadTasks.filter, loadTasks.sort), loadTasks)

Responded(msg, res) == [msg EXCEPT !.kind = "response", !.response = res]

InFlight == BagToSet(net)

Sent(msg) == net (+) SetToBag({msg})

Taken(msg) == net (-) SetToBag({msg})

Replaced(msg, by) == Taken(msg) (+) SetToBag({by})

\* response.ok
Ok(res) == res.status \in 200..299

\* the effect on [loadTasks]: a new filter or sort starts a load
setFilter(newFilter) ==
  /\ ~app.dialogOpen
  /\ newFilter # app.filter
  /\ BagCardinality(net) < MaxInFlight
  /\ app' = [app EXCEPT !.filter = newFilter, !.loading = TRUE]
  /\ net' = Sent(LoadRequest(Closure(newFilter, app.sort)))
  /\ UNCHANGED <<server, today>>

setSort(newSort) ==
  /\ ~app.dialogOpen
  /\ newSort # app.sort
  /\ BagCardinality(net) < MaxInFlight
  /\ app' = [app EXCEPT !.sort = newSort, !.loading = TRUE]
  /\ net' = Sent(LoadRequest(Closure(app.filter, newSort)))
  /\ UNCHANGED <<server, today>>

\* the list is rendered when no load is pending
Displayed(task) ==
  /\ ~app.loading
  /\ ~app.dialogOpen
  /\ \E i \in 1..Len(app.tasks) : app.tasks[i] = task

\* handleToggleComplete up to its await
handleToggleComplete(task) ==
  /\ Displayed(task)
  /\ BagCardinality(net) < MaxInFlight
  /\ net' = Sent(Fetch("PATCH", IdPath(task.id), EmptyBody, NoQuery,
                        Closure(app.filter, app.sort)))
  /\ UNCHANGED <<server, app, today>>

\* handleDeleteTask up to its await
handleDeleteTask(task) ==
  /\ Displayed(task)
  /\ BagCardinality(net) < MaxInFlight
  /\ net' = Sent(Fetch("DELETE", IdPath(task.id), EmptyBody, NoQuery,
                        Closure(app.filter, app.sort)))
  /\ UNCHANGED <<server, app, today>>

handleAddTask ==
  /\ ~app.dialogOpen
  /\ app' = [app EXCEPT !.editingTask = <<>>, !.dialogOpen = TRUE,
                        !.formData = BlankForm, !.errors = NoErrors]
  /\ UNCHANGED <<server, net, today>>

handleEditTask(task) ==
  /\ Displayed(task)
  /\ app' = [app EXCEPT !.editingTask = <<task>>, !.dialogOpen = TRUE,
                        !.formData = FormOf(task), !.errors = NoErrors]
  /\ UNCHANGED <<server, net, today>>

\* handleDialogClose and the effect of the dialog on [task, open]
Closed(a) ==
  [a EXCEPT !.dialogOpen = FALSE, !.editingTask = <<>>,
            !.formData = BlankForm, !.errors = NoErrors]

handleDialogClose ==
  /\ app.dialogOpen
  /\ app' = Closed(app)
  /\ UNCHANGED <<server, net, today>>

handleChange(field, value) ==
  /\ app.dialogOpen
  /\ app' = [app EXCEPT
               !.formData = [app.formData EXCEPT ![field] = value],
               !.errors = IF field = "title" THEN NoErrors ELSE app.errors]
  /\ UNCHANGED <<server, net, today>>

\* { ...formData, due_date: formData.due_date || null } as JSON
TaskData(formData) ==
  Body(Str(formData.title), Str(formData.description),
       Str(formData.priority),
       IF formData.due_date # <<>> THEN Str(formData.due_date) ELSE Null,
       Undefined)

\* handleSubmit, and handleSaveTask up to its await
handleSubmit ==
  /\ app.dialogOpen
  /\ ~saveButtonDisabled
  /\ LET titleError == validateTaskTitle(app.formData.title)
     IN  IF ~titleError.null
           THEN /\ app' = [app EXCEPT !.errors = [title |-> titleError]]
                /\ UNCHANGED net
           ELSE /\ BagCardinality(net) < MaxInFlight
                /\ net' = Sent(IF app.editingTask # <<>>
                                  THEN Fetch("PUT",
                                             IdPath(app.editingTask[1].id),
                                             TaskData(app.formData), NoQuery,
                                             Closure(app.filter, app.sort))
                                  ELSE Fetch("POST", NoId,
                                             TaskData(app.formData), NoQuery,
                                             Closure(app.filter, app.sort)))
                /\ UNCHANGED app
  /\ UNCHANGED <<server, today>>

\* the handler that answers a request in flight
Handle(msg) ==
  /\ msg.kind = "request"
  /\ \/ msg.method = "GET" /\ ListTasks(msg.query)
     \/ msg.method = "POST" /\ CreateTask(msg.body)
     \/ msg.method = "PUT" /\ UpdateTask(msg.id, msg.body)
     \/ msg.method = "PATCH" /\ ToggleTask(msg.id)
     \/ msg.method = "DELETE" /\ DeleteTask(msg.id)
  /\ net' = Replaced(msg, Responded(msg, response'))
  /\ UNCHANGED <<app, today>>

\* loadTasks after its await
Loaded(msg) ==
  /\ msg.kind = "response"
  /\ msg.method = "GET"
  /\ app' = IF Ok(msg.response)
              THEN [app EXCEPT !.tasks = msg.response.body.list,
                               !.loading = FALSE]
              ELSE [app EXCEPT !.loading = FALSE,
                               !.snackbar =
                                  showSnackbar("Failed to load tasks: ",
                                               "Failed to fetch tasks",
                                               "error")]
  /\ net' = Taken(msg)
  /\ UNCHANGED <<server, today>>

Success(method) ==
  IF method = "POST" THEN showSnackbar("Task created successfully", "", "success")
  ELSE IF method = "PUT" THEN showSnackbar("Task updated successfully", "", "success")
  ELSE IF method = "DELETE" THEN showSnackbar("Task deleted successfully", "", "success")
  ELSE app.snackbar

Failure(method, error) ==
  IF method = "PATCH" THEN showSnackbar("Failed to update task: ", error, "error")
  ELSE IF method = "DELETE" THEN showSnackbar("Failed to delete task: ", error, "error")
  ELSE showSnackbar("", error, "error")

\* handleSaveTask, handleToggleComplete and handleDeleteTask after their
\* await: the loadTasks they call is the one they were created with
Settled(msg) ==
  /\ msg.kind = "response"
  /\ msg.method # "GET"
  /\ IF Ok(msg.response)
       THEN /\ app' = [(IF msg.method \in {"POST", "PUT"} THEN Closed(app)
                        ELSE app)
                         EXCEPT !.snackbar = Success(msg.method),
                                !.loading = TRUE]
            /\ net' = Replaced(msg, LoadRequest(msg.loadTasks))
       ELSE /\ app' = [app EXCEPT !.snackbar =
                         Failure(msg.method, msg.response.body.error)]
            /\ net' = Taken(msg)
  /\ UNCHANGED <<server, today>>

\* the days dayjs() reads, in order
Calendar ==
  << <<"2", "0", "2", "6", "-", "0", "2", "-", "1", "4">>,
     <<"2", "0", "2", "6", "-", "0", "2", "-", "1", "5">> >>

Midnight ==
  /\ \E i \in 1..(Len(Calendar) - 1) :
       today = Calendar[i] /\ today' = Calendar[i + 1]
  /\ UNCHANGED <<server, app, net>>

(***************************************************************************)
(* The state machine of the server: the client is mounted, its first load  *)
(* is in flight, and the requests come from any caller.                    *)
(***************************************************************************)
Init ==
  /\ tasks = [k \in 1..Len(initialTasks) |->
                InsertedRow(k, initialTasks[k].title, initialTasks[k].description,
                            initialTasks[k].priority, initialTasks[k].due_date, 0)]
  /\ seq = Len(initialTasks)
  /\ clock = 0
  /\ request = Req("NONE", NoId, EmptyBody)
  /\ response = NoError
  /\ nreq = 0
  /\ app = Mounted
  /\ net = SetToBag({LoadRequest(Closure(Mounted.filter, Mounted.sort))})
  /\ today = Calendar[1]

Next ==
  \/ \E body \in CreateBodies : CreateTask(body) /\ UNCHANGED client
  \/ \E id \in PathIds, body \in UpdateBodies :
       UpdateTask(id, body) /\ UNCHANGED client
  \/ \E id \in PathIds : ToggleTask(id) /\ UNCHANGED client
  \/ \E id \in DeletePathIds : DeleteTask(id) /\ UNCHANGED client
  \/ Tick /\ UNCHANGED client

Spec == Init /\ [][Next]_vars

(***************************************************************************)
(* The list requests, issued between the requests that change the store.   *)
(***************************************************************************)
Queries ==
  { Query(status, priority, Undefined) :
      status \in StatusParams \cup {Str(All)},
      priority \in PriorityParams \cup {Str(Invalid)} }
  \cup { Query(Undefined, Undefined, sort) :
           sort \in {Str(SortDueDate), Str(SortPriority), Str(SortTitle),
                     Str(CreatedAt)} }
  \cup { Query(Str(Active), Str(High), Str(SortPriority)),
         Query(Str(All), Str(Invalid), Str(CreatedAt)),
         Query(Str(Active), Undefined, Str(SortDueDate)),
         Query(Str(Completed), Str(Low), Str(CreatedAt)) }

ListCreateBodies ==
  { Body(Str(Short), Undefined, Str(High), Str(Day), Undefined),
    Body(Str(Padded), Undefined, Undefined, Undefined, Undefined) }

ListUpdateBodies ==
  { Body(Undefined, Undefined, Undefined, Null, Undefined),
    Body(Undefined, Undefined, Undefined, Str(<<>>), Undefined),
    Body(Undefined, Undefined, Str(Low), Undefined, Bool(TRUE)) }

ListPathIds == {IdPath(1), IdPath(2)}

ListNext ==
  \/ \E body \in ListCreateBodies : CreateTask(body) /\ UNCHANGED client
  \/ \E id \in ListPathIds, body \in ListUpdateBodies :
       UpdateTask(id, body) /\ UNCHANGED client
  \/ \E id \in ListPathIds : ToggleTask(id) /\ UNCHANGED client
  \/ \E id \in ListPathIds : DeleteTask(id) /\ UNCHANGED client
  \/ Tick /\ UNCHANGED client
  \/ \E query \in Queries : ListTasks(query) /\ UNCHANGED client

ListSpec == Init /\ [][ListNext]_vars

(***************************************************************************)
(* The client and the server together: every request comes from the one    *)
(* client, which may have been mounted after earlier sessions completed    *)
(* tasks; nreq counts the requests handled since.                          *)
(***************************************************************************)
EarlierCompleted == {{}, {2}}

ClientInit ==
  /\ \E done \in EarlierCompleted :
       tasks = [k \in 1..Len(initialTasks) |->
                  [InsertedRow(k, initialTasks[k].title,
                               initialTasks[k].description,
                               initialTasks[k].priority,
                               initialTasks[k].due_date, 0)
                     EXCEPT !.completed = IF k \in done THEN 1 ELSE 0]]
  /\ seq = Len(initialTasks)
  /\ clock = 0
  /\ request = Req("NONE", NoId, EmptyBody)
  /\ response = NoError
  /\ nreq = 0
  /\ app = Mounted
  /\ net = SetToBag({LoadRequest(Closure(Mounted.filter, Mounted.sort))})
  /\ today = Calendar[1]

\* what the title field is given; handleChange stores any value it is handed
FormTitles == {Short, Rep(" ", 2), <<" ">> \o Rep("a", MaxTitleLength)}

\* the sort options the user picks
Sorts == {SORT_OPTIONS[1], SORT_OPTIONS[2]}

FormChanges == {<<"title", t>> : t \in FormTitles}

ClientNext ==
  \/ \E newFilter \in FILTER_OPTIONS : setFilter(newFilter)
  \/ \E newSort \in Sorts : setSort(newSort)
  \/ \E i \in 1..Len(app.tasks) : handleToggleComplete(app.tasks[i])
  \/ \E i \in 1..Len(app.tasks) : handleDeleteTask(app.tasks[i])
  \/ \E msg \in InFlight : Handle(msg)
  \/ \E msg \in InFlight : Loaded(msg)
  \/ \E msg \in InFlight : Settled(msg)
  \/ Midnight

ClientSpec == ClientInit /\ [][ClientNext]_vars

(***************************************************************************)
(* The same client, its user working in the task dialog.                   *)
(***************************************************************************)
DialogNext ==
  \/ handleAddTask
  \/ \E i \in 1..Len(app.tasks) : handleEditTask(app.tasks[i])
  \/ \E change \in FormChanges : handleChange(change[1], change[2])
  \/ handleSubmit
  \/ handleDialogClose
  \/ \E msg \in InFlight : Handle(msg)
  \/ \E msg \in InFlight : Loaded(msg)
  \/ \E msg \in InFlight : Settled(msg)

DialogSpec == ClientInit /\ [][DialogNext]_vars

(***************************************************************************)
(* Callers that do not wait for one another: App has rendered, its effect  *)
(* has not run, and any caller's request is handled while others are in    *)
(* flight.  No caller takes its response, so `net` keeps every answer.     *)
(***************************************************************************)
Calls ==
  { Fetch(method, id, EmptyBody, NoQuery, Closure(All, CreatedAt)) :
      method \in {"PATCH", "DELETE"}, id \in {IdPath(1), IdPath(2)} }
  \cup { Fetch("POST", NoId,
                Body(Str(Short), Undefined, Undefined, Undefined, Undefined),
                NoQuery, Closure(All, CreatedAt)),
          Fetch("PUT", IdPath(1),
                Body(Undefined, Undefined, Str(Low), Undefined, Undefined),
                NoQuery, Closure(All, CreatedAt)),
          LoadRequest(Closure(Active, CreatedAt)) }

Call(msg) ==
  /\ BagCardinality(net) < MaxInFlight
  /\ net' = Sent(msg)
  /\ UNCHANGED <<server, app, today>>

ConcurrentInit ==
  /\ tasks = [k \in 1..Len(initialTasks) |->
                InsertedRow(k, initialTasks[k].title, initialTasks[k].description,
                            initialTasks[k].priority, initialTasks[k].due_date, 0)]
  /\ seq = Len(initialTasks)
  /\ clock = 0
  /\ request = Req("NONE", NoId, EmptyBody)
  /\ response = NoError
  /\ nreq = 0
  /\ app = Mounted
  /\ net = EmptyBag
  /\ today = Calendar[1]

ConcurrentNext ==
  \/ \E msg \in Calls : Call(msg)
  \/ \E msg \in InFlight : Handle(msg)

ConcurrentSpec == ConcurrentInit /\ [][ConcurrentNext]_vars

TypeOK ==
  /\ seq \in Nat
  /\ clock \in 0..MaxClock
  /\ nreq \in 0..MaxRequests
  /\ DOMAIN tasks \subseteq 1..seq
  /\ \A k \in DOMAIN tasks : tasks[k].id = k

(***************************************************************************)
(* Properties.                                                             *)
(***************************************************************************)
\* the step handles one request of the given method
Handled(method) == nreq' = nreq + 1 /\ request'.method = method

IsBlank(s) == \A i \in 1..Len(s) : IsWhitespace(s[i])

\* a string with a non-whitespace character and at most 200 characters
AcceptableTitle(v) ==
  v.t = "string" /\ ~IsBlank(v.s) /\ Len(v.s) <= MaxTitleLength

\* C1: in every reachable state every stored task has a priority in
\* {high, medium, low}
C1_PriorityInSet ==
  \A k \in DOMAIN tasks : tasks[k].priority \in {High, Medium, Low}

\* a create with an invalid priority has stored its task at medium
C1_Witness ==
  /\ request.method = "POST"
  /\ request.body.priority = Str(Invalid)
  /\ response.status = 201
  /\ response.body.id \in DOMAIN tasks
  /\ tasks[response.body.id].priority = Medium

\* C2: in every reachable state every stored title is non-empty, has no
\* leading or trailing whitespace and is at most 200 characters long
C2_TitleWellFormed ==
  \A k \in DOMAIN tasks :
    LET title == tasks[k].title
    IN  /\ Len(title) >= 1
        /\ ~IsWhitespace(title[1])
        /\ ~IsWhitespace(title[Len(title)])
        /\ Len(title) <= MaxTitleLength

\* a padded title of 200 characters has been stored with 199 characters
C2_Witness ==
  /\ request.method = "POST"
  /\ request.body.title = Str(<<" ">> \o Rep("a", MaxTitleLength - 1))
  /\ response.status = 201
  /\ response.body.id \in DOMAIN tasks
  /\ tasks[response.body.id].title = Rep("a", MaxTitleLength - 1)

\* C3: every create answered 201 returns a record with completed = 0 and
\* with the supplied priority when that is one of the three levels, medium
\* otherwise, whatever else the body holds
C3_CreatedRecord ==
  (request.method = "POST" /\ response.status = 201) =>
    /\ response.body.completed = 0
    /\ response.body.priority \in {High, Medium, Low}
    /\ response.body.priority =
         IF request.body.priority \in {Str(High), Str(Medium), Str(Low)}
           THEN request.body.priority.s
           ELSE Medium

\* a create whose body carries completed: true and priority high answered 201
C3_Witness ==
  /\ request.method = "POST"
  /\ request.body.completed = Bool(TRUE)
  /\ request.body.priority = Str(High)
  /\ response.status = 201
  /\ response.body.priority = High

\* the request reached the title rules with a string title: every create,
\* and every update of an existing task that supplies a title
TitleRulesApplied ==
  /\ request.body.title.t = "string"
  /\ \/ request.method = "POST"
     \/ /\ request.method = "PUT"
        /\ ~InvalidId(request.id)
        /\ FindById(request.id) # {}

\* C4 as stated: a supplied title is rejected as too long exactly when its
\* length after trimming exceeds 200
C4_TrimmedLengthRule ==
  TitleRulesApplied =>
    (response = Err(400, TitleTooLong)
       <=> Len(Trim(request.body.title.s)) > MaxTitleLength)

\* C4 amended: create and update reject a supplied title as required exactly
\* when it is blank, and as too long exactly when it is not blank and its
\* raw, untrimmed length exceeds 200
C4_RawLengthRule ==
  TitleRulesApplied =>
    /\ response = Err(400, TitleRequired) <=> IsBlank(request.body.title.s)
    /\ response = Err(400, TitleTooLong)
         <=> (~IsBlank(request.body.title.s)
                /\ Len(request.body.title.s) > MaxTitleLength)

\* an update was rejected as too long for a title of 200 characters after
\* trimming
C4_Witness ==
  /\ request.method = "PUT"
  /\ request.body.title = Str(<<" ">> \o Rep("a", MaxTitleLength))
  /\ Len(Trim(request.body.title.s)) = MaxTitleLength
  /\ response = Err(400, TitleTooLong)

\* C5 as stated: a create with any 201-character title fails with the
\* length error and adds no record, with any 200-character title it succeeds
\* and adds exactly one record
C5_AnyTitle ==
  [][(Handled("POST") /\ request'.body.title.t = "string") =>
       /\ Len(request'.body.title.s) = MaxTitleLength + 1 =>
            (response' = Err(400, TitleTooLong) /\ tasks' = tasks)
       /\ Len(request'.body.title.s) = MaxTitleLength =>
            /\ response'.status = 201
            /\ Cardinality(DOMAIN tasks') = Cardinality(DOMAIN tasks) + 1
            /\ \A k \in DOMAIN tasks : k \in DOMAIN tasks' /\ tasks'[k] = tasks[k]]_vars

\* C5 amended: the same for titles that are not blank
C5_NonBlankTitle ==
  [][(Handled("POST") /\ request'.body.title.t = "string"
        /\ ~IsBlank(request'.body.title.s)) =>
       /\ Len(request'.body.title.s) = MaxTitleLength + 1 =>
            (response' = Err(400, TitleTooLong) /\ tasks' = tasks)
       /\ Len(request'.body.title.s) = MaxTitleLength =>
            /\ response'.status = 201
            /\ Cardinality(DOMAIN tasks') = Cardinality(DOMAIN tasks) + 1
            /\ \A k \in DOMAIN tasks : k \in DOMAIN tasks' /\ tasks'[k] = tasks[k]]_vars

\* a title of exactly 200 characters has been created
C5_Witness ==
  /\ request.method = "POST"
  /\ request.body.title = Str(Rep("a", MaxTitleLength))
  /\ response.status = 201
  /\ response.body.title = Rep("a", MaxTitleLength)

\* C6 as stated: an update whose id matches no stored record is answered
\* 404 'Task not found' whatever the payload
C6_AnyUnmatchedId ==
  [][(Handled("PUT") /\ FindById(request'.id) = {}) =>
       response' = Err(404, TaskNotFound)]_vars

\* C6 amended: an update whose id passes the id check and matches no stored
\* record is answered 404 'Task not found' whatever the payload, and the
\* store stays as it was
C6_ValidUnmatchedId ==
  [][(Handled("PUT") /\ ~InvalidId(request'.id)
        /\ FindById(request'.id) = {}) =>
       (response' = Err(404, TaskNotFound) /\ tasks' = tasks)]_vars

\* an update of the missing id 99 with a blank title and an invalid priority
\* was answered 404
C6_Witness ==
  /\ request.method = "PUT"
  /\ request.id = <<"9", "9">>
  /\ request.body.title = Str(Rep(" ", 2))
  /\ request.body.priority = Str(Invalid)
  /\ response = Err(404, TaskNotFound)

\* C7: an update of an existing task whose priority is outside the three
\* levels, its other fields valid, is answered 400 'Invalid priority level'
\* and leaves the store unchanged; a create with such a priority and a valid
\* title is answered 201 with a task at medium
C7_InvalidPriority ==
  [][/\ (Handled("PUT") /\ ~InvalidId(request'.id)
           /\ FindById(request'.id) # {}
           /\ request'.body.priority # Undefined
           /\ request'.body.priority \notin {Str(High), Str(Medium), Str(Low)}
           /\ (request'.body.title = Undefined
                 \/ AcceptableTitle(request'.body.title))) =>
          (response' = Err(400, InvalidPriority) /\ tasks' = tasks)
     /\ (Handled("POST") /\ AcceptableTitle(request'.body.title)
           /\ request'.body.priority # Undefined
           /\ request'.body.priority \notin {Str(High), Str(Medium), Str(Low)}) =>
          /\ response'.status = 201
          /\ response'.body.priority = Medium
          /\ response'.body.id \in DOMAIN tasks'
          /\ tasks'[response'.body.id] = response'.body]_vars

\* an update carrying valid fields next to an invalid priority was refused
C7_Witness ==
  /\ request.method = "PUT"
  /\ request.body = Body(Str(Short), Str(Note), Str(Invalid), Str(Day), Bool(TRUE))
  /\ response = Err(400, InvalidPriority)
  /\ FindById(request.id) # {}
  /\ \A k \in FindById(request.id) : tasks[k].title # Short

\* C8: an update answered 200 sets, in the addressed task, the fields present
\* in the request and updated_at, and leaves its omitted fields, its id and
\* created_at and every other task as they were
C8_UpdateFrame ==
  [][(Handled("PUT") /\ response'.status = 200) =>
       /\ DOMAIN tasks' = DOMAIN tasks
       /\ FindById(request'.id) # {}
       /\ \A k \in DOMAIN tasks \ FindById(request'.id) : tasks'[k] = tasks[k]
       /\ \A k \in FindById(request'.id) :
           /\ tasks'[k].id = tasks[k].id
           /\ tasks'[k].created_at = tasks[k].created_at
           /\ tasks'[k].updated_at = clock
           /\ tasks'[k].title =
                IF request'.body.title = Undefined THEN tasks[k].title
                ELSE Trim(request'.body.title.s)
           /\ tasks'[k].description =
                IF request'.body.description = Undefined
                  THEN tasks[k].description
                  ELSE request'.body.description
           /\ tasks'[k].priority =
                IF request'.body.priority = Undefined
                  THEN tasks[k].priority
                  ELSE request'.body.priority.s
           /\ tasks'[k].due_date =
                IF request'.body.due_date = Undefined
                  THEN tasks[k].due_date
                  ELSE request'.body.due_date
           /\ tasks'[k].completed =
                IF request'.body.completed = Undefined
                  THEN tasks[k].completed
                  ELSE IF Truthy(request'.body.completed) THEN 1 ELSE 0
           /\ response'.body = tasks'[k]]_vars

\* an update with an empty payload has refreshed updated_at and nothing else
C8_Witness ==
  /\ request.method = "PUT"
  /\ request.body = EmptyBody
  /\ response.status = 200
  /\ response.body.updated_at > response.body.created_at
  /\ response.body.id \in 1..Len(initialTasks)
  /\ response.body.title = initialTasks[response.body.id].title
  /\ response.body.description = initialTasks[response.body.id].description

\* C9: a toggle answered 200 returns and stores the opposite of the stored
\* completed value and never lowers updated_at; a toggle that follows a
\* toggle of the same task returns the value the task had before the first;
\* a request that does not address a task leaves that task as it was
C9_ToggleTwice ==
  [][/\ (Handled("PATCH") /\ response'.status = 200) =>
          \A k \in FindById(request'.id) :
            /\ tasks[k].completed \in {0, 1}
            /\ response'.body.completed = 1 - tasks[k].completed
            /\ tasks'[k].completed = 1 - tasks[k].completed
            /\ tasks'[k].updated_at >= tasks[k].updated_at
            /\ (request.method = "PATCH" /\ response.status = 200
                  /\ response.body.id = k) =>
                 /\ response'.body.completed = 1 - response.body.completed
                 /\ response'.body.updated_at >= response.body.updated_at
     /\ nreq' = nreq + 1 =>
          \A k \in DOMAIN tasks \ FindById(request'.id) :
            k \in DOMAIN tasks' /\ tasks'[k] = tasks[k]]_vars

\* the second of two toggles has returned a seeded task to completed = 0
C9_Witness ==
  /\ request.method = "PATCH"
  /\ response.status = 200
  /\ nreq = 2
  /\ response.body.completed = 0
  /\ tasks[response.body.id].completed = 0

\* C10: a delete addressed to a stored id is answered 200 with the message
\* and that id and removes the task from every list result; the same delete
\* repeated is answered 404 'Task not found'; a removed id never comes back;
\* a delete whose id matches no record leaves the store unchanged
C10_DeleteTwice ==
  [][/\ Handled("DELETE") =>
          /\ \A k \in DOMAIN tasks :
               request'.id = IdPath(k) =>
                 /\ response' = Res(200, [message |-> TaskDeleted, id |-> k])
                 /\ k \notin DOMAIN tasks'
                 /\ \A status \in StatusParams, priority \in PriorityParams :
                      k \notin Selected(status, priority)'
          /\ (request.method = "DELETE" /\ response.status = 200
                /\ request'.id = request.id) =>
               response' = Err(404, TaskNotFound)
          /\ FindById(request'.id) = {} =>
               /\ tasks' = tasks
               /\ seq' = seq
               /\ response'.status \in {400, 404}
     /\ \A k \in 1..seq : k \notin DOMAIN tasks => k \notin DOMAIN tasks']_vars

\* the second delete of the seeded task 1 was answered 404
C10_Witness ==
  /\ request.method = "DELETE"
  /\ request.id = IdPath(1)
  /\ response = Err(404, TaskNotFound)
  /\ 1 \notin DOMAIN tasks

\* a string of decimal digits, the only form the client gives an id
IsIdentifier(s) == s # <<>> /\ \A i \in 1..Len(s) : IsDigit(s[i])

\* C11 as stated: a delete whose id path is not a string of digits is
\* answered 400 'Valid task ID is required' and leaves the store unchanged
C11_UnparsableIdRefused ==
  [][(Handled("DELETE") /\ ~IsIdentifier(request'.id)) =>
       (response' = Err(400, ValidIdRequired) /\ tasks' = tasks)]_vars

\* C12 as stated: a delete answered 200 removes exactly one record, the one
\* whose id the confirmation payload carries, and leaves the others alone
C12_PayloadNamesRemoved ==
  [][(Handled("DELETE") /\ response'.status = 200) =>
       /\ DOMAIN tasks \ DOMAIN tasks' = {response'.body.id}
       /\ DOMAIN tasks' \subseteq DOMAIN tasks
       /\ \A k \in DOMAIN tasks' : tasks'[k] = tasks[k]]_vars

\* the rows a list request returned
Returned == response.body.list

Recognised(v, keys) == v.t = "string" /\ v.s \in keys

\* C13: a list returns exactly the stored tasks that satisfy both filters,
\* each once and as stored: status=active only tasks with completed = 0,
\* status=completed only tasks with completed = 1, priority=p only tasks of
\* priority p, and no stored task that satisfies the filters is missing
C13_ExactlyTheFiltered ==
  request.method = "GET" =>
    /\ \A i \in 1..Len(Returned) :
         /\ Returned[i].id \in DOMAIN tasks
         /\ Returned[i] = tasks[Returned[i].id]
         /\ request.query.status = Str(Active) => Returned[i].completed # 1
         /\ request.query.status = Str(Completed) => Returned[i].completed # 0
         /\ request.query.priority \in {Str(High), Str(Medium), Str(Low)} =>
              Returned[i].priority = request.query.priority.s
         /\ \A j \in 1..Len(Returned) : Returned[j].id = Returned[i].id => j = i
    /\ \A k \in DOMAIN tasks :
         (/\ request.query.status = Str(Active) => tasks[k].completed = 0
          /\ request.query.status = Str(Completed) => tasks[k].completed = 1
          /\ request.query.priority \in {Str(High), Str(Medium), Str(Low)} =>
               tasks[k].priority = request.query.priority.s)
         => \E i \in 1..Len(Returned) : Returned[i].id = k

\* a list with status=completed and priority=low has returned the one task an
\* update had completed and set to low, and left out the seeded low task
C13_Witness ==
  /\ request.method = "GET"
  /\ request.query.status = Str(Completed)
  /\ request.query.priority = Str(Low)
  /\ Len(Returned) = 1
  /\ Returned[1].id \in {1, 2}
  /\ 3 \in DOMAIN tasks
  /\ tasks[3].priority = Low

\* the ids of the rows a list request returned
ReturnedIds == {Returned[i].id : i \in 1..Len(Returned)}

\* C14: a list is always answered 200 with an array; a status other than
\* active/completed returns the tasks no status filter returns, a priority
\* outside the three levels returns the tasks no priority filter returns,
\* and a sort key other than due_date/priority/title returns them in the
\* order no sort key gives
C14_UnrecognisedIgnored ==
  request.method = "GET" =>
    /\ response.status = 200
    /\ DOMAIN Returned = 1..Len(Returned)
    /\ ~Recognised(request.query.status, {Active, Completed}) =>
         ReturnedIds = Selected(Undefined, request.query.priority)
    /\ ~Recognised(request.query.priority, {High, Medium, Low}) =>
         ReturnedIds = Selected(request.query.status, Undefined)
    /\ ~Recognised(request.query.sort, {SortDueDate, SortPriority, SortTitle}) =>
         Returned = Listed(Query(request.query.status, request.query.priority,
                                 Undefined))

\* a list with status=all, priority=invalid and sort=created_at has returned
\* the whole store, a completed task included
C14_Witness ==
  /\ request.method = "GET"
  /\ request.query = Query(Str(All), Str(Invalid), Str(CreatedAt))
  /\ response.status = 200
  /\ ReturnedIds = DOMAIN tasks
  /\ \E k \in DOMAIN tasks : tasks[k].completed = 1

\* C15: in a list with sort=priority no medium or low task comes before a
\* high task and no low task comes before a medium task
C15_HighMediumLow ==
  (request.method = "GET" /\ request.query.sort = Str(SortPriority)) =>
    \A i, j \in 1..Len(Returned) :
      i < j =>
        /\ Returned[j].priority = High => Returned[i].priority = High
        /\ Returned[j].priority = Medium => Returned[i].priority \in {High, Medium}
        /\ Returned[i].priority \in {High, Medium, Low}

\* a list with sort=priority has returned a created high task right after
\* the seeded high task and before the seeded medium and low tasks
C15_Witness ==
  /\ request.method = "GET"
  /\ request.query = Query(Undefined, Undefined, Str(SortPriority))
  /\ Len(Returned) = 4
  /\ Returned[1].id = 1
  /\ Returned[2].id = 4
  /\ Returned[2].priority = High
  /\ Returned[3].priority = Medium
  /\ Returned[4].priority = Low

\* a task has a due date when the column holds a non-empty string
HasDueDate(row) == Truthy(row.due_date)

\* C16 as stated: in a list with sort=due_date every task without a due date
\* comes after every task that has one, and the tasks that have one are in
\* ascending order of due date
C16_DueDateOrder ==
  (request.method = "GET" /\ request.query.sort = Str(SortDueDate)) =>
    \A i, j \in 1..Len(Returned) :
      i < j =>
        /\ HasDueDate(Returned[j]) => HasDueDate(Returned[i])
        /\ (HasDueDate(Returned[i]) /\ HasDueDate(Returned[j])) =>
             ~StrLess(Returned[j].due_date.s, Returned[i].due_date.s)

\* C17 as stated: in a list with no sort key or an unrecognised one, of any
\* two returned tasks the one created later comes first
C17_NewestFirst ==
  (request.method = "GET"
     /\ ~Recognised(request.query.sort, {SortDueDate, SortPriority, SortTitle})) =>
    \A i, j \in 1..Len(Returned) :
      Returned[i].id > Returned[j].id => i < j

\* C18: no two stored tasks have the same id, a create gives its task an id
\* no stored task has, and no request changes the id or the created_at of a
\* task that stays in the store
C18_IdAndCreatedAtFixed ==
  [][/\ \A j, k \in DOMAIN tasks' :
          tasks'[j].id = tasks'[k].id => j = k
     /\ \A k \in DOMAIN tasks :
          k \in DOMAIN tasks' =>
            /\ tasks'[k].id = tasks[k].id
            /\ tasks'[k].created_at = tasks[k].created_at
     /\ (nreq' = nreq + 1 /\ request'.method \in {"PUT", "PATCH"}) =>
          /\ DOMAIN tasks' = DOMAIN tasks
          /\ response'.status = 200 =>
               /\ response'.body.id \in FindById(request'.id)
               /\ response'.body.created_at = tasks[response'.body.id].created_at
     /\ (Handled("POST") /\ response'.status = 201) =>
          \A k \in DOMAIN tasks : tasks[k].id # response'.body.id]_vars

\* an update of every field, one second after the task was created, has left
\* its id and its created_at as they were
C18_Witness ==
  /\ request.method = "PUT"
  /\ request.body = Body(Str(Short), Str(Note), Str(Low), Str(Day), Bool(TRUE))
  /\ response.status = 200
  /\ request.id = IdPath(response.body.id)
  /\ response.body.updated_at = 1
  /\ tasks[response.body.id].created_at = 0

\* the addressed task changes in completed and updated_at only and every
\* other task stays as it was
ToggleFrame ==
  /\ DOMAIN tasks' = DOMAIN tasks
  /\ \A k \in DOMAIN tasks \ FindById(request'.id) : tasks'[k] = tasks[k]
  /\ \A k \in FindById(request'.id) :
       /\ tasks'[k] = [tasks[k] EXCEPT !.completed = tasks'[k].completed,
                                       !.updated_at = tasks'[k].updated_at]
       /\ tasks'[k].completed # tasks[k].completed
       /\ response'.body = tasks'[k]

\* C19 as stated: a toggle is answered 200 or 404 whatever the id path; on
\* 200 only completed and updated_at of the addressed task change, otherwise
\* nothing changes
C19_OkOrNotFound ==
  [][Handled("PATCH") =>
       /\ response'.status \in {200, 404}
       /\ response'.status = 200 => ToggleFrame
       /\ response'.status # 200 => tasks' = tasks]_vars

\* C19 amended: a toggle is answered 400 'Valid task ID is required' when
\* the id path fails the id check, 404 'Task not found' when it passes the
\* check and matches no task, and 200 otherwise; on 200 only completed and
\* updated_at of the addressed task change, otherwise nothing changes
C19_OkNotFoundOrInvalid ==
  [][Handled("PATCH") =>
       /\ response' =
            IF InvalidId(request'.id) THEN Err(400, ValidIdRequired)
            ELSE IF FindById(request'.id) = {} THEN Err(404, TaskNotFound)
            ELSE Res(200, response'.body)
       /\ response'.status = 200 => ToggleFrame
       /\ response'.status # 200 => tasks' = tasks]_vars

\* a toggle with the id path 'abc' was answered 400
C19_Witness ==
  /\ request.method = "PATCH"
  /\ request.id = <<"a", "b", "c">>
  /\ response = Err(400, ValidIdRequired)

\* C20: a task enters the store only by a create, with a new id and
\* completed = 0; the store changes only in a create, update, toggle or
\* delete request; completed moves only between 0 and 1 and only in an update
\* or a toggle; a task leaves the store only by a delete, and a delete
\* addressed to a stored task removes it whether it is completed or not; an
\* id that has left the store never returns and requests addressed to it
\* are answered 404
C20_Lifecycle ==
  [][/\ \A k \in DOMAIN tasks' \ DOMAIN tasks :
          /\ Handled("POST")
          /\ k > seq
          /\ tasks'[k].completed = 0
     /\ tasks' # tasks =>
          /\ nreq' = nreq + 1
          /\ request'.method \in {"POST", "PUT", "PATCH", "DELETE"}
     /\ \A k \in DOMAIN tasks \cap DOMAIN tasks' :
          /\ tasks'[k].completed \in {0, 1}
          /\ tasks'[k].completed # tasks[k].completed =>
               (nreq' = nreq + 1 /\ request'.method \in {"PUT", "PATCH"})
     /\ \A k \in DOMAIN tasks :
          /\ k \notin DOMAIN tasks' => Handled("DELETE")
          /\ (Handled("DELETE") /\ request'.id = IdPath(k)) =>
               (k \notin DOMAIN tasks' /\ response'.status = 200)
     /\ \A k \in (1..seq) \ DOMAIN tasks :
          /\ k \notin DOMAIN tasks'
          /\ (nreq' = nreq + 1 /\ request'.id = IdPath(k)) =>
               response' = Err(404, TaskNotFound)]_vars

\* a toggle of the deleted task 1 was answered 404
C20_Witness ==
  /\ request.method = "PATCH"
  /\ request.id = IdPath(1)
  /\ 1 \notin DOMAIN tasks
  /\ seq >= 1
  /\ response = Err(404, TaskNotFound)

(***************************************************************************)
(* Properties of concurrent callers and of the client.                     *)
(***************************************************************************)
\* the answers in flight to the requests of one method for one path
RepliesTo(method, id) ==
  {msg \in InFlight :
     msg.kind = "response" /\ msg.method = method /\ msg.id = id}

\* the answers in flight to every request that writes the row of a path
WritesTo(id) ==
  {msg \in InFlight :
     /\ msg.kind = "response"
     /\ msg.method \in {"PUT", "PATCH", "DELETE"}
     /\ msg.id = id}

\* how many messages of a set are in flight, copies counted
Copies(S) == BagCardinality([msg \in S |-> net[msg]])

\* C21: when the only requests handled for a seeded task are two toggles
\* issued while the other was in flight, both are answered 200, one with
\* completed 1 and one with completed 0, and the task is left as it was;
\* when they are two deletes, exactly one is answered 200 and one 404 and
\* the task is gone
C21_SomeSequentialOrder ==
  \A id \in {IdPath(1), IdPath(2)} :
    /\ (Copies(RepliesTo("PATCH", id)) = 2 /\ Copies(WritesTo(id)) = 2) =>
         /\ \A msg \in RepliesTo("PATCH", id) : msg.response.status = 200
         /\ {msg.response.body.completed : msg \in RepliesTo("PATCH", id)}
              = {0, 1}
         /\ FindById(id) # {}
         /\ Get(tasks, id).completed = 0
    /\ (Copies(RepliesTo("DELETE", id)) = 2 /\ Copies(WritesTo(id)) = 2) =>
         /\ Copies({msg \in RepliesTo("DELETE", id) :
                      msg.response.status = 200}) = 1
         /\ Copies({msg \in RepliesTo("DELETE", id) :
                      msg.response.status = 404}) = 1
         /\ FindById(id) = {}

\* two toggles of task 1 were in flight together and both have been answered
C21_Witness ==
  /\ Copies(RepliesTo("PATCH", IdPath(1))) = 2
  /\ nreq = 2
  /\ tasks[1].completed = 0

\* no request or response is in flight
Quiescent == InFlight = {}

\* the list on display is the server's list for the selected filter and sort
Fresh == app.tasks = Listed(getTasks(app.filter, app.sort))

\* C22 as stated: with nothing in flight and the display up to date, the
\* counter shows the number of active and of completed tasks of the store,
\* whichever filter is selected
C22_CounterShowsStore ==
  (Quiescent /\ ~app.loading /\ Fresh) =>
    /\ activeCount(app.tasks)
         = Cardinality({k \in DOMAIN tasks : tasks[k].completed = 0})
    /\ completedCount(app.tasks)
         = Cardinality({k \in DOMAIN tasks : tasks[k].completed = 1})

\* C23: a task on display is overdue exactly when it is not completed, has
\* a due date, and the due date is an earlier day than today
C23_OverdueExactly ==
  \A i \in 1..Len(app.tasks) :
    isOverdue(app.tasks[i], today) <=>
      /\ app.tasks[i].completed = 0
      /\ HasDueDate(app.tasks[i])
      /\ StrLess(app.tasks[i].due_date.s, today)

\* on 2026-02-15 the list shows task 2, active and due the day before, as
\* overdue, and neither task 1, due that day, nor task 3, without a due date
C23_Witness ==
  /\ today = Calendar[2]
  /\ Len(app.tasks) = 3
  /\ \E i \in 1..3 :
       /\ app.tasks[i].id = 2
       /\ app.tasks[i].completed = 0
       /\ isOverdue(app.tasks[i], today)
  /\ \E i \in 1..3 :
       /\ app.tasks[i].id = 1
       /\ app.tasks[i].due_date.s = today
       /\ ~isOverdue(app.tasks[i], today)
  /\ \E i \in 1..3 :
       app.tasks[i].due_date = Null /\ ~isOverdue(app.tasks[i], today)

\* C24 as stated: while the add-task dialog is open with an empty title the
\* save button is disabled, and no create request carries an empty title
C24_SaveDisabledWhileEmpty ==
  /\ (app.dialogOpen /\ app.editingTask = <<>> /\ app.formData.title = <<>>)
       => saveButtonDisabled
  /\ \A msg \in InFlight :
       (msg.kind = "request" /\ msg.method = "POST") =>
         msg.body.title # Str(<<>>)

\* C25 as stated: with nothing in flight the list on display is the
\* server's list for the selected filter and sort, and under the active
\* filter no task that the store holds completed is on display
C25_DisplayIsServerList ==
  Quiescent =>
    /\ Fresh
    /\ app.filter = Active =>
         \A i \in 1..Len(app.tasks) :
           \A k \in DOMAIN tasks :
             k = app.tasks[i].id => tasks[k].completed = 0

\* C26: in every reachable state every stored task has completed equal to 0
\* or 1, an update that supplies completed is answered with 1 for a truthy
\* value and 0 for any other, and a toggle is answered with 0 or 1
C26_CompletedIsBit ==
  /\ \A k \in DOMAIN tasks : tasks[k].completed \in {0, 1}
  /\ (request.method \in {"PUT", "PATCH"} /\ response.status = 200) =>
       response.body.completed \in {0, 1}
  /\ (request.method = "PUT" /\ response.status = 200) =>
       /\ request.body.completed \in {Null, Num(0), Bool(FALSE), Str(<<>>)} =>
            response.body.completed = 0
       /\ request.body.completed \in {Num(2), Bool(TRUE), Str(Short)} =>
            response.body.completed = 1

\* an update with completed: 2 has stored completed = 1
C26_Witness ==
  /\ request.method = "PUT"
  /\ request.body.completed = Num(2)
  /\ response.status = 200
  /\ response.body.id \in DOMAIN tasks
  /\ tasks[response.body.id].completed = 1

\* C27: a create, update, toggle or delete answered 400 or 404 leaves the
\* store as it was: no row added, removed or changed, updated_at included,
\* and the id counter unchanged
C27_RefusedLeavesStore ==
  [][(nreq' = nreq + 1 /\ response'.status \in {400, 404}) =>
       (tasks' = tasks /\ seq' = seq)]_vars

\* an update of a stored task was refused for its priority one second after
\* the store was seeded, and no row has a refreshed updated_at
C27_Witness ==
  /\ request.method = "PUT"
  /\ request.body = Body(Str(Short), Str(Note), Str(Invalid), Str(Day), Bool(TRUE))
  /\ FindById(request.id) # {}
  /\ response.status = 400
  /\ clock = 1
  /\ nreq = 1
  /\ \A k \in DOMAIN tasks : tasks[k].updated_at = 0

\* C28: the id a create assigns is greater than every id assigned before,
\* whether its task is still stored or was deleted; ids in the store never
\* exceed the last id assigned, which never decreases
C28_IdsNeverReused ==
  [][/\ (Handled("POST") /\ response'.status = 201) =>
          /\ response'.body.id > seq
          /\ \A k \in DOMAIN tasks : response'.body.id > k
          /\ seq' = response'.body.id
          /\ DOMAIN tasks' = DOMAIN tasks \cup {response'.body.id}
     /\ seq' >= seq
     /\ \A k \in DOMAIN tasks' : k <= seq']_vars

\* a create that followed the delete of task 3 has assigned id 4
C28_Witness ==
  /\ request.method = "POST"
  /\ response.status = 201
  /\ response.body.id = 4
  /\ 3 \notin DOMAIN tasks
  /\ 4 \in DOMAIN tasks

\* C29: the dialog and the API give a title the same verdict: the title in
\* the form passes validateTaskTitle exactly when it passes the server's
\* title rules, a message the dialog shows is the message the server would
\* send, and no create or update sent from the dialog is refused for its
\* title
C29_ValidatorsAgree ==
  /\ validateTaskTitle(app.formData.title).null
       <=> TitleError(Str(app.formData.title)) = ""
  /\ ~validateTaskTitle(app.formData.title).null =>
       validateTaskTitle(app.formData.title).message
         = TitleError(Str(app.formData.title))
  /\ ~app.errors.title.null =>
       app.errors.title.message = TitleError(Str(app.formData.title))
  /\ \A msg \in InFlight :
       msg.method \in {"POST", "PUT"} =>
         /\ TitleError(msg.body.title) = ""
         /\ (msg.kind = "response" /\ msg.response.status = 400) =>
              msg.response.body.error \notin {TitleRequired, TitleTooLong}

\* a create sent from the dialog has been answered 201 while the dialog
\* shows the length message for a title of 201 characters
C29_Witness ==
  /\ app.dialogOpen
  /\ Len(app.formData.title) = MaxTitleLength + 1
  /\ app.errors.title = Message(TitleTooLong)
  /\ \E msg \in InFlight :
       /\ msg.kind = "response"
       /\ msg.method = "POST"
       /\ msg.response.status = 201
       /\ msg.response.body.title = Short

====
